---- MODULE Spec2Model ----
(***************************************************************************)
(* A model of the icon extractor (src/html/icon_extractor.py), of the      *)
(* markdown image injector (src/markdown_image_injector.py) and of the     *)
(* page export of the PDF image extractor                                  *)
(* (src/html/pdf_image_extractor.py).                                      *)
(*                                                                         *)
(* detect_icons is a sequential procedure: create the output directory,    *)
(* load the image, convert it to grayscale, run one detection strategy,    *)
(* then crop and write one file per detected region.  The detection        *)
(* strategies (detect_by_contours, detect_by_grid,                         *)
(* detect_by_template_matching) and auto_detect_grid_size are functions of  *)
(* their arguments and are modelled as operators.                          *)
(*                                                                         *)
(* Rasters are modelled pixel by pixel.  A raster holds one solid square   *)
(* of gray level `ink` on a background of gray level `paper`.              *)
(***************************************************************************)
EXTENDS Integers, Sequences, FiniteSets, TLC

VARIABLES
    image,            \* what cv2.imread yields for image_path: a raster or NoImage
    cfg,              \* min_size, max_size, threshold, padding, method
    pc,               \* position in the procedure under execution
    dirCreated,       \* Path(output_dir).mkdir has created the directory
    loaded,           \* cv2.imread has been called
    grayDone,         \* cv2.cvtColor has been called
    detected,         \* a detection strategy has been called
    candidates,       \* the rectangles the strategy examined: contours or grid cells
    icons,            \* the list of regions the strategy returned
    idx,              \* the loop variable i of the export loop
    crop,             \* the region last cropped and its rectangle <<x1, y1, x2, y2>>
    disk,             \* the files in output_dir: records [name, rect]
    log,              \* the lines printed so far
    extracted_count,  \* the counter of the export loop
    faults,           \* how many writes have failed so far
    ret,              \* the value returned, "True" or "False" (None before the return)
    run,              \* which call of detect_icons on this input is under way: 1 or 2
    first,            \* what the first call left behind, once a second one has started
    doc,              \* the document the markdown and PDF tools read
    frame             \* the local variables of the markdown and PDF tools

vars == << image, cfg, pc, dirCreated, loaded, grayDone, detected, candidates,
           icons, idx, crop, disk, log, extracted_count, faults, ret,
           run, first, doc, frame >>

(***************************************************************************)
(* Bounds of the model.                                                    *)
(***************************************************************************)
MaxDim == 4          \* raster width and height range over 1..MaxDim
MaxMinSize == 2      \* min_size ranges over 0..MaxMinSize
MaxPad == 1          \* padding ranges over 0..MaxPad
MaxFaults == 1       \* at most this many writes fail in one run
MaxGridDim == 9      \* detect_by_grid alone: width and height range over 1..MaxGridDim
MaxCand == 3         \* detect_by_contours alone: contour width and height range over 0..MaxCand
MaxAutoDim == 12     \* auto_detect_grid_size: width and height range over 1..MaxAutoDim

None == "None"
NoImage == [decoded |-> FALSE]

Min(a, b) == IF a <= b THEN a ELSE b
Max(a, b) == IF a >= b THEN a ELSE b
SetMin(S) == CHOOSE m \in S : \A n \in S : m <= n
SetMax(S) == CHOOSE m \in S : \A n \in S : m >= n

(***************************************************************************)
(* Rasters.  Gray levels are 8-bit; a raster of this family has at most    *)
(* two of them.                                                            *)
(***************************************************************************)
Black == 0
White == 255

Pixels(img) == (0 .. img.W - 1) \X (0 .. img.H - 1)

InSquare(img, p) ==
    /\ img.sx <= p[1] /\ p[1] < img.sx + img.s
    /\ img.sy <= p[2] /\ p[2] < img.sy + img.s

GrayAt(img, p) == IF InSquare(img, p) THEN img.ink ELSE img.paper

RastersOf(W, H) ==
    { [W |-> W, H |-> H, sx |-> sx, sy |-> sy, s |-> s, ink |-> k[1], paper |-> k[2]] :
        sx \in 0 .. W - 1, sy \in 0 .. H - 1, s \in 1 .. Min(W, H),
        k \in { <<Black, White>>, <<White, Black>> } }

Rasters ==
    { r \in UNION { RastersOf(W, H) : W \in 1 .. MaxDim, H \in 1 .. MaxDim } :
        r.sx + r.s <= r.W /\ r.sy + r.s <= r.H }

(***************************************************************************)
(* cv2.threshold(gray, 0, 255, THRESH_BINARY + THRESH_OTSU).               *)
(* Otsu's search keeps the first level i of 0..255 at which the            *)
(* between-class variance is largest, skipping every i that leaves one     *)
(* class empty.  With two levels lo < hi in the raster the variance is     *)
(* the same positive number for every i in lo..hi-1, so the result is lo;  *)
(* with one level every i is skipped and the result is the initial 0.      *)
(* THRESH_BINARY then makes a pixel foreground iff its level exceeds the   *)
(* threshold.                                                              *)
(***************************************************************************)
Levels(img) == { GrayAt(img, p) : p \in Pixels(img) }

OtsuThreshold(img) ==
    IF Cardinality(Levels(img)) >= 2 THEN SetMin(Levels(img)) ELSE 0

Binary(img) == { p \in Pixels(img) : GrayAt(img, p) > OtsuThreshold(img) }

(***************************************************************************)
(* cv2.findContours(binary, RETR_EXTERNAL, CHAIN_APPROX_SIMPLE): one       *)
(* contour per 8-connected component of the foreground, the outer border   *)
(* of the component; borders of holes are not returned.                    *)
(***************************************************************************)
Nbrs4(p) ==
    { <<p[1] - 1, p[2]>>, <<p[1] + 1, p[2]>>, <<p[1], p[2] - 1>>, <<p[1], p[2] + 1>> }

Nbrs8(p) ==
    Nbrs4(p) \cup { <<p[1] - 1, p[2] - 1>>, <<p[1] + 1, p[2] - 1>>,
                    <<p[1] - 1, p[2] + 1>>, <<p[1] + 1, p[2] + 1>> }

\* The pixels of `among` that an 8-connected path inside `among` joins to `set`.
RECURSIVE Grow8(_, _, _)
Grow8(among, set, frontier) ==
    LET new == (UNION { Nbrs8(p) : p \in frontier } \cap among) \ set
    IN  IF new = {} THEN set ELSE Grow8(among, set \cup new, new)

RECURSIVE Components(_)
Components(fg) ==
    IF fg = {} THEN {}
    ELSE LET seed == CHOOSE p \in fg : TRUE
             comp == Grow8(fg, {seed}, {seed})
         IN  {comp} \cup Components(fg \ comp)

\* The pixels of the raster, with one ring of pixels around it.
Framed(img) == (-1 .. img.W) \X (-1 .. img.H)

\* The pixels of `among` that a 4-connected path inside `among` joins to `set`.
RECURSIVE Grow4(_, _, _)
Grow4(among, set, frontier) ==
    LET new == (UNION { Nbrs4(p) : p \in frontier } \cap among) \ set
    IN  IF new = {} THEN set ELSE Grow4(among, set \cup new, new)

\* The pixels the outer border of component comp encloses: comp and its holes.
Enclosed(img, comp) ==
    LET free == Framed(img) \ comp
        outside == Grow4(free, {<<-1, -1>>}, {<<-1, -1>>})
    IN  Framed(img) \ outside

\* cv2.boundingRect(contour)
boundingRect(comp) ==
    LET xs == { p[1] : p \in comp }
        ys == { p[2] : p \in comp }
    IN  [x |-> SetMin(xs), y |-> SetMin(ys),
         w |-> SetMax(xs) - SetMin(xs) + 1, h |-> SetMax(ys) - SetMin(ys) + 1]

(***************************************************************************)
(* cv2.contourArea(contour): the area of the polygon whose vertices are    *)
(* the centres of the border pixels.  Following the border with            *)
(* 8-connectivity, a unit cell between four pixel centres lies inside the  *)
(* polygon when all four pixels are enclosed, and half of it does when     *)
(* exactly three are (the border cuts the corner diagonally).  The area    *)
(* is a multiple of 1/2; contourArea2 is twice the area.                   *)
(***************************************************************************)
CornersIn(F, c) ==
    Cardinality({ q \in { c, <<c[1] + 1, c[2]>>, <<c[1], c[2] + 1>>, <<c[1] + 1, c[2] + 1>> } :
                    q \in F })

contourArea2(img, comp) ==
    LET F == Enclosed(img, comp)
        cells == (0 .. img.W - 2) \X (0 .. img.H - 2)
    IN  2 * Cardinality({ c \in cells : CornersIn(F, c) = 4 })
          + Cardinality({ c \in cells : CornersIn(F, c) = 3 })

ContourOf(img, comp) ==
    LET r == boundingRect(comp)
    IN  [x |-> r.x, y |-> r.y, w |-> r.w, h |-> r.h, area2 |-> contourArea2(img, comp)]

\* The contours of the raster, as a set: findContours fixes no order.
FoundContours(img) == { ContourOf(img, comp) : comp \in Components(Binary(img)) }

\* The sequences that list every element of the set S once.
RECURSIVE Orders(_)
Orders(S) ==
    IF S = {} THEN { <<>> }
    ELSE UNION { { <<e>> \o t : t \in Orders(S \ {e}) } : e \in S }

(***************************************************************************)
(* detect_by_contours: the size and fill filter (lines 88-101).            *)
(* A threshold is a fraction <<numerator, denominator>>; the comparison    *)
(* area / rect_area > threshold is made on integers.  For rect_area = 0    *)
(* the division raises ZeroDivisionError.                                  *)
(***************************************************************************)
SizeInRange(c, min_size, max_size) ==
    /\ min_size <= c.w /\ c.w <= max_size
    /\ min_size <= c.h /\ c.h <= max_size

\* line 98, the left operand of `and`
NonZeroArea(rect_area) == rect_area > 0

\* Whether line 98 evaluates area / rect_area for contour c.
Divides(c, min_size, max_size) ==
    SizeInRange(c, min_size, max_size) /\ NonZeroArea(c.w * c.h)

\* Whether lines 94-98 raise ZeroDivisionError for contour c.
ContourRaises(c, min_size, max_size) ==
    Divides(c, min_size, max_size) /\ c.w * c.h = 0

\* The mutant of FillRatioExceeds: the comparison is >= instead of >.
FillRatioAtLeast(area2, rect_area, threshold) ==
    area2 * threshold[2] >= 2 * threshold[1] * rect_area

\* area / rect_area > threshold, for rect_area # 0
FillRatioExceeds(area2, rect_area, threshold) ==
    area2 * threshold[2] > 2 * threshold[1] * rect_area

\* Whether lines 94-99 append contour c's rectangle.
ContourAccept(c, min_size, max_size, threshold) ==
    /\ Divides(c, min_size, max_size)
    /\ c.w * c.h # 0
    /\ FillRatioExceeds(c.area2, c.w * c.h, threshold)

Region(c) == <<c.x, c.y, c.w, c.h>>

\* The result of a strategy: the list it returns, or an exception.
Returned(list) == [raised |-> FALSE, icons |-> list]
Raised == [raised |-> TRUE, icons |-> <<>>]

RECURSIVE Regions(_)
Regions(cs) == IF cs = <<>> THEN <<>> ELSE <<Region(Head(cs))>> \o Regions(Tail(cs))

detect_by_contours(cs, min_size, max_size, threshold) ==
    IF \E k \in 1 .. Len(cs) : ContourRaises(cs[k], min_size, max_size)
    THEN Raised
    ELSE Returned(Regions(SelectSeq(cs,
                    LAMBDA c : ContourAccept(c, min_size, max_size, threshold))))

(***************************************************************************)
(* detect_by_grid (lines 103-121).                                         *)
(***************************************************************************)
GridN == 4

grid_size(width, height) == Min(width, height) \div GridN

GridCell(width, height, row, col) ==
    LET x == col * grid_size(width, height)
        y == row * grid_size(width, height)
    IN  << x, y, Min(grid_size(width, height), width - x),
                 Min(grid_size(width, height), height - y) >>

\* The mutant of GridAccept: max_size is applied too.
GridAcceptMax(cell, min_size, max_size) ==
    /\ cell[3] >= min_size /\ cell[4] >= min_size
    /\ cell[3] <= max_size /\ cell[4] <= max_size

GridAccept(cell, min_size, max_size) == cell[3] >= min_size /\ cell[4] >= min_size

\* The 16 candidate cells in the order of the two loops: row by row.
GridCandidates(width, height) ==
    [ k \in 1 .. GridN * GridN |->
        GridCell(width, height, (k - 1) \div GridN, (k - 1) % GridN) ]

detect_by_grid(width, height, min_size, max_size) ==
    Returned(SelectSeq(GridCandidates(width, height),
                       LAMBDA cell : GridAccept(cell, min_size, max_size)))

(***************************************************************************)
(* detect_by_template_matching (lines 123-127).                            *)
(***************************************************************************)
\* The mutant of detect_by_template_matching: the unfinished strategy raises
\* NotImplementedError.
detect_by_template_matching_unsupported(min_size, max_size, threshold) == Raised

detect_by_template_matching(min_size, max_size, threshold) == Returned(<<>>)

(***************************************************************************)
(* auto_detect_grid_size (lines 129-145): the first grid size of           *)
(* [2, 3, 4, 5, 6] that divides width and height, else (4, 4).             *)
(***************************************************************************)
GridSizes == <<2, 3, 4, 5, 6>>

RECURSIVE FirstDividing(_, _, _)
FirstDividing(sizes, width, height) ==
    IF sizes = <<>> THEN <<4, 4>>
    ELSE IF width % Head(sizes) = 0 /\ height % Head(sizes) = 0
         THEN <<Head(sizes), Head(sizes)>>
         ELSE FirstDividing(Tail(sizes), width, height)

\* The mutant of auto_detect_grid_size: the sizes are tried from the largest.
auto_detect_grid_size_largest(img) ==
    IF img = NoImage THEN <<4, 4>>
    ELSE FirstDividing(<<6, 5, 4, 3, 2>>, img.W, img.H)

auto_detect_grid_size(img) ==
    IF img = NoImage THEN <<4, 4>>
    ELSE FirstDividing(GridSizes, img.W, img.H)

(***************************************************************************)
(* The crop rectangle (lines 57-60) and the file name (line 66).           *)
(***************************************************************************)
\* The mutant of CropRect: the right and bottom edges are not clamped.
CropRectUnclamped(img, r, padding) ==
    << Max(0, r[1] - padding), Max(0, r[2] - padding),
       r[1] + r[3] + padding, r[2] + r[4] + padding >>

CropRect(img, r, padding) ==
    << Max(0, r[1] - padding), Max(0, r[2] - padding),
       Min(img.W, r[1] + r[3] + padding), Min(img.H, r[2] + r[4] + padding) >>

\* image[y1:y2, x1:x2] has no pixel
EmptySlice(c) == c[1] >= c[3] \/ c[2] >= c[4]

RECURSIVE Decimal(_)
Decimal(n) == IF n < 10 THEN <<n>> ELSE Decimal(n \div 10) \o <<n % 10>>

RECURSIVE ZeroPad(_, _)
ZeroPad(digits, width) ==
    IF Len(digits) >= width THEN digits ELSE ZeroPad(<<0>> \o digits, width)

\* The mutant of icon_filename: the files are numbered from 1.
icon_filename_from_one(i) == <<"icon_">> \o ZeroPad(Decimal(i + 1), 3) \o <<".png">>

\* The mutant of icon_filename: the files are numbered after those already
\* in the directory.
icon_filename_after_existing(i) ==
    <<"icon_">> \o ZeroPad(Decimal(i + Cardinality(disk)), 3) \o <<".png">>

\* f"icon_{i:03d}.png"
icon_filename(i) == <<"icon_">> \o ZeroPad(Decimal(i), 3) \o <<".png">>

(***************************************************************************)
(* detect_icons (lines 15-78).                                             *)
(***************************************************************************)
Methods == { "contour", "grid", "template", "spiral" }

\* The paths that cv2.imread cannot decode, and one it can.
BadPaths == { "missing.png", "notes.txt" }
GoodPath == "sheet.png"

Thresholds == { <<1, 4>>, <<4, 5>> }

Configs ==
    [ image_path : BadPaths \cup {GoodPath},
      min_size : 0 .. MaxMinSize,
      max_size : { 3, 200 },
      threshold : Thresholds,
      padding : 0 .. MaxPad,
      method : Methods ]

NoCrop == [region |-> <<>>, rect |-> <<>>]
NoFirst == [done |-> FALSE]
NoDoc == [kind |-> "none"]
NoFrame == [of |-> "none"]

\* The state before a procedure starts.
FreshRun ==
    /\ dirCreated = FALSE
    /\ loaded = FALSE
    /\ grayDone = FALSE
    /\ detected = FALSE
    /\ candidates = <<>>
    /\ icons = <<>>
    /\ idx = 0
    /\ crop = NoCrop
    /\ disk = {}
    /\ log = <<>>
    /\ extracted_count = 0
    /\ faults = 0
    /\ ret = None
    /\ run = 1
    /\ first = NoFirst

\* The state before a procedure of the icon extractor starts.
Fresh ==
    /\ FreshRun
    /\ doc = NoDoc
    /\ frame = NoFrame

\* Only the contour strategy reads the pixels: the other methods are run on
\* one raster of each size.
PlainRasters == { r \in Rasters : r.sx = 0 /\ r.sy = 0 /\ r.s = 1 /\ r.ink = Black }

Init ==
    /\ cfg \in Configs
    /\ image \in Rasters \cup {NoImage}
    /\ (image = NoImage) <=> (cfg.image_path \in BadPaths)
    /\ (image # NoImage /\ cfg.method # "contour") => image \in PlainRasters
    /\ pc = "mkdir"
    /\ Fresh

\* line 31: the directory is created, or mkdir raises; the call is outside the
\* try block, so the exception leaves detect_icons.
MakeOutputDir ==
    /\ pc = "mkdir"
    /\ \/ dirCreated' = TRUE /\ pc' = "load"
       \/ dirCreated' = FALSE /\ pc' = "raised"
    /\ UNCHANGED << run, first, doc, frame >>
    /\ UNCHANGED << image, cfg, loaded, grayDone, detected, candidates, icons, idx,
                    crop, disk, log, extracted_count, faults, ret >>

\* The mutant of LoadImage: the None check of line 36 is missing, and
\* cv2.cvtColor raises on None.
LoadImageUnchecked ==
    /\ pc = "load"
    /\ loaded' = TRUE
    /\ pc' = "gray"
    /\ UNCHANGED << run, first, doc, frame >>
    /\ UNCHANGED << image, cfg, dirCreated, grayDone, detected, candidates, icons, idx,
                    crop, disk, log, extracted_count, faults, ret >>

\* lines 35-38
LoadImage ==
    /\ pc = "load"
    /\ loaded' = TRUE
    /\ IF image = NoImage
       THEN /\ log' = Append(log, <<"Error: Could not load image", cfg.image_path>>)
            /\ ret' = "False"
            /\ pc' = "done"
       ELSE /\ pc' = "gray"
            /\ UNCHANGED << log, ret >>
    /\ UNCHANGED << run, first, doc, frame >>
    /\ UNCHANGED << image, cfg, dirCreated, grayDone, detected, candidates, icons, idx,
                    crop, disk, extracted_count, faults >>

\* line 41; on None cv2.cvtColor raises, and line 76 catches it.
ConvertGray ==
    /\ pc = "gray"
    /\ grayDone' = TRUE
    /\ IF image = NoImage
       THEN /\ log' = Append(log, <<"Error processing image">>)
            /\ ret' = "False"
            /\ pc' = "done"
       ELSE /\ pc' = "detect"
            /\ UNCHANGED << log, ret >>
    /\ UNCHANGED << run, first, doc, frame >>
    /\ UNCHANGED << image, cfg, dirCreated, loaded, detected, candidates, icons, idx,
                    crop, disk, extracted_count, faults >>

\* The mutant of KnownMethod: an unknown method falls through to a strategy.
KnownMethodAny(method) == TRUE

\* lines 43-48: the methods the if/elif chain dispatches on.
KnownMethod(method) == method \in { "contour", "grid", "template" }

\* What the strategy examines: the contours of the raster in the order
\* findContours lists them, which it does not specify, or the grid cells.
\* findContours is a function of the raster: a second call on the same
\* raster lists the contours in the order of the first.
CandidateLists ==
    IF cfg.method = "contour"
    THEN IF run = 2 THEN { first.candidates } ELSE Orders(FoundContours(image))
    ELSE IF cfg.method = "grid" THEN { GridCandidates(image.W, image.H) }
    ELSE { <<>> }

\* What the strategy returns, given the contours findContours produced.
StrategyResult(cs) ==
    IF cfg.method = "contour"
    THEN detect_by_contours(cs, cfg.min_size, cfg.max_size, cfg.threshold)
    ELSE IF cfg.method = "template"
    THEN detect_by_template_matching(cfg.min_size, cfg.max_size, cfg.threshold)
    ELSE detect_by_grid(image.W, image.H, cfg.min_size, cfg.max_size)

\* lines 43-48, with a known method
Detect ==
    /\ pc = "detect"
    /\ KnownMethod(cfg.method)
    /\ detected' = TRUE
    /\ \E cs \in CandidateLists :
          /\ candidates' = cs
          /\ IF StrategyResult(cs).raised
             THEN /\ log' = Append(log, <<"Error processing image">>)
                  /\ ret' = "False"
                  /\ pc' = "done"
                  /\ UNCHANGED icons
             ELSE /\ icons' = StrategyResult(cs).icons
                  /\ pc' = "export"
                  /\ UNCHANGED << log, ret >>
    /\ UNCHANGED << run, first, doc, frame >>
    /\ UNCHANGED << image, cfg, dirCreated, loaded, grayDone, idx, crop, disk,
                    extracted_count, faults >>

\* lines 49-51
RejectMethod ==
    /\ pc = "detect"
    /\ ~KnownMethod(cfg.method)
    /\ log' = Append(log, <<"Unknown method", cfg.method>>)
    /\ ret' = "False"
    /\ pc' = "done"
    /\ UNCHANGED << run, first, doc, frame >>
    /\ UNCHANGED << image, cfg, dirCreated, loaded, grayDone, detected, candidates,
                    icons, idx, crop, disk, extracted_count, faults >>

\* A write puts the file in the directory, replacing one of the same name.
WriteFile(files, name, rect) ==
    { f \in files : f.name # name } \cup { [name |-> name, rect |-> rect] }

\* lines 76-78
Except ==
    /\ log' = Append(log, <<"Error processing image">>)
    /\ ret' = "False"
    /\ pc' = "done"

\* lines 70-71
Extracted(name) ==
    /\ log' = Append(log, <<"Extracted", name, icons[idx + 1]>>)
    /\ extracted_count' = extracted_count + 1
    /\ idx' = idx + 1
    /\ UNCHANGED << pc, ret >>

\* lines 55-71, one iteration of the loop.  cv2.imwrite raises on an empty
\* image; otherwise it writes the file and returns True, or cannot write it
\* and returns False (line 68 drops the value), or raises.
ExportIcon ==
    /\ pc = "export"
    /\ idx < Len(icons)
    /\ LET rect == CropRect(image, icons[idx + 1], cfg.padding)
           name == icon_filename(idx)
       IN  /\ crop' = [region |-> icons[idx + 1], rect |-> rect]
           /\ IF EmptySlice(rect)
              THEN Except /\ UNCHANGED << disk, extracted_count, idx, faults >>
              ELSE \/ /\ disk' = WriteFile(disk, name, rect)
                      /\ Extracted(name)
                      /\ UNCHANGED faults
                   \/ /\ faults < MaxFaults
                      /\ faults' = faults + 1
                      /\ Extracted(name)
                      /\ UNCHANGED disk
                   \/ /\ faults < MaxFaults
                      /\ faults' = faults + 1
                      /\ Except
                      /\ UNCHANGED << disk, extracted_count, idx >>
    /\ UNCHANGED << run, first, doc, frame >>
    /\ UNCHANGED << image, cfg, dirCreated, loaded, grayDone, detected, candidates, icons >>

\* lines 73-74
Finish ==
    /\ pc = "export"
    /\ idx = Len(icons)
    /\ log' = Append(log, <<"Extracted icons", extracted_count>>)
    /\ ret' = "True"
    /\ pc' = "done"
    /\ UNCHANGED << run, first, doc, frame >>
    /\ UNCHANGED << image, cfg, dirCreated, loaded, grayDone, detected, candidates,
                    icons, idx, crop, disk, extracted_count, faults >>

Next ==
    \/ MakeOutputDir
    \/ LoadImage
    \/ ConvertGray
    \/ Detect
    \/ RejectMethod
    \/ ExportIcon
    \/ Finish

Spec == Init /\ [][Next]_vars

(***************************************************************************)
(* detect_by_grid called on its own: a specification of the function.      *)
(***************************************************************************)
GridDims == (1 .. MaxGridDim) \cup { 400 }

GridRasters ==
    { [W |-> W, H |-> H, sx |-> 0, sy |-> 0, s |-> 1, ink |-> Black, paper |-> White] :
        W \in GridDims, H \in GridDims }

GridConfigs ==
    [ image_path : {GoodPath},
      min_size : (0 .. MaxMinSize) \cup { 100, 101 },
      max_size : { 3, 200 },
      threshold : { <<4, 5>> },
      padding : { 0 },
      method : { "grid" } ]

InitGrid ==
    /\ cfg \in GridConfigs
    /\ image \in GridRasters
    /\ pc = "call_grid"
    /\ Fresh

CallDetectByGrid ==
    /\ pc = "call_grid"
    /\ candidates' = GridCandidates(image.W, image.H)
    /\ icons' = detect_by_grid(image.W, image.H, cfg.min_size, cfg.max_size).icons
    /\ pc' = "returned_grid"
    /\ UNCHANGED << run, first, doc, frame >>
    /\ UNCHANGED << image, cfg, dirCreated, loaded, grayDone, detected, idx, crop,
                    disk, log, extracted_count, faults, ret >>

NextGrid == CallDetectByGrid

SpecGrid == InitGrid /\ [][NextGrid]_vars

(***************************************************************************)
(* The filter of detect_by_contours applied to given contours: a           *)
(* specification of lines 88-101.  boundingRect gives a contour of a       *)
(* raster a rectangle with w, h >= 1 and contourArea at most               *)
(* (w-1)*(h-1); rectangles with w = 0 or h = 0 are listed too, to cover    *)
(* the guard of line 98.                                                   *)
(***************************************************************************)
ContourShapes ==
    { c \in [ x : {0}, y : {0}, w : 0 .. MaxCand, h : 0 .. MaxCand,
              area2 : 0 .. 2 * MaxCand * MaxCand ] :
        c.area2 <= 2 * Max(0, c.w - 1) * Max(0, c.h - 1) }

ContourLists == UNION { [ 1 .. n -> ContourShapes ] : n \in 0 .. 2 }

FilterConfigs ==
    [ image_path : {GoodPath},
      min_size : 0 .. MaxMinSize,
      max_size : { 2, 200 },
      threshold : Thresholds,
      padding : { 0 },
      method : { "contour" } ]

InitFilter ==
    /\ cfg \in FilterConfigs
    /\ image = NoImage
    /\ pc = "call_filter"
    /\ candidates \in ContourLists
    /\ icons = <<>>
    /\ dirCreated = FALSE /\ loaded = FALSE /\ grayDone = FALSE /\ detected = FALSE
    /\ idx = 0 /\ crop = NoCrop /\ disk = {} /\ log = <<>>
    /\ extracted_count = 0 /\ faults = 0 /\ ret = None
    /\ run = 1 /\ first = NoFirst /\ doc = NoDoc /\ frame = NoFrame

CallFilter ==
    /\ pc = "call_filter"
    /\ LET r == detect_by_contours(candidates, cfg.min_size, cfg.max_size, cfg.threshold)
       IN  /\ icons' = r.icons
           /\ pc' = IF r.raised THEN "raised" ELSE "returned_filter"
    /\ UNCHANGED << run, first, doc, frame >>
    /\ UNCHANGED << image, cfg, dirCreated, loaded, grayDone, detected, candidates, idx,
                    crop, disk, log, extracted_count, faults, ret >>

NextFilter == CallFilter

SpecFilter == InitFilter /\ [][NextFilter]_vars

(***************************************************************************)
(* auto_detect_grid_size called on its own.                                *)
(***************************************************************************)
AutoRasters ==
    { [W |-> W, H |-> H, sx |-> 0, sy |-> 0, s |-> 1, ink |-> Black, paper |-> White] :
        W \in 1 .. MaxAutoDim, H \in 1 .. MaxAutoDim }

InitAuto ==
    /\ cfg \in [ image_path : BadPaths \cup {GoodPath}, min_size : {20}, max_size : {200},
                 threshold : { <<4, 5>> }, padding : {5}, method : { "grid" } ]
    /\ image \in AutoRasters \cup {NoImage}
    /\ (image = NoImage) <=> (cfg.image_path \in BadPaths)
    /\ pc = "call_auto"
    /\ Fresh

CallAutoDetectGridSize ==
    /\ pc = "call_auto"
    /\ loaded' = TRUE
    /\ ret' = auto_detect_grid_size(image)
    /\ pc' = "returned_auto"
    /\ UNCHANGED << run, first, doc, frame >>
    /\ UNCHANGED << image, cfg, dirCreated, grayDone, detected, candidates, icons, idx,
                    crop, disk, log, extracted_count, faults >>

NextAuto == CallAutoDetectGridSize

SpecAuto == InitAuto /\ [][NextAuto]_vars

(***************************************************************************)
(* detect_icons called twice on the same image with the same arguments.    *)
(***************************************************************************)
InitTwice == Init

\* The second call of detect_icons, after the first has returned with every
\* write done: onto the directory as the first call left it, or onto the
\* directory emptied.
CallAgain ==
    /\ pc = "done"
    /\ run = 1
    /\ faults = 0
    /\ run' = 2
    /\ \E onto \in { "left", "empty" } :
          /\ first' = [done |-> TRUE, onto |-> onto, disk |-> disk, ret |-> ret,
                       candidates |-> candidates]
          /\ disk' = IF onto = "left" THEN disk ELSE {}
    /\ pc' = "mkdir"
    /\ dirCreated' = FALSE
    /\ loaded' = FALSE
    /\ grayDone' = FALSE
    /\ detected' = FALSE
    /\ candidates' = <<>>
    /\ icons' = <<>>
    /\ idx' = 0
    /\ crop' = NoCrop
    /\ log' = <<>>
    /\ extracted_count' = 0
    /\ ret' = None
    /\ UNCHANGED << image, cfg, faults, doc, frame >>

NextTwice ==
    \/ Next
    \/ CallAgain

SpecTwice == InitTwice /\ [][NextTwice]_vars

(***************************************************************************)
(* inject_images_into_markdown (src/markdown_image_injector.py, lines      *)
(* 32-148) with pattern_type 'exact', 'contains' or 'regex'.               *)
(*                                                                         *)
(* A line is a sequence of tokens: a run of plain text, or a reference     *)
(* [name], {name} or <name>.  A name is a sequence of letters.  The image  *)
(* markdown ![name](target) is a token of its own.  The lines of the model *)
(* hold no bare word of the fourth alternative of the pattern of line 77.  *)
(***************************************************************************)
MaxTokens == 2       \* a line holds at most this many tokens

IconNames == { <<"a">>, <<"a", "b">> }
NoName == <<>>

Brackets == { "[", "{", "<" }

TextToken == [open |-> "", name |-> NoName, target |-> NoName]
Reference(open, name) == [open |-> open, name |-> name, target |-> NoName]
References == { Reference(open, name) : open \in Brackets, name \in IconNames }

\* f"![{icon_name}]({relative_path})", f"![{icon_name}]({base64_data})"
img_markdown(icon_name, image_name) == [open |-> "!", name |-> icon_name, target |-> image_name]

MarkdownLines == UNION { [ 1 .. n -> References \cup {TextToken} ] : n \in 0 .. MaxTokens }

\* content.split('\n'): one line, or a line of text and then one line.
MarkdownContents == { <<l>> : l \in MarkdownLines } \cup { << <<TextToken>>, l >> : l \in MarkdownLines }

\* The orders in which images_dir.glob lists the images it holds.
RECURSIVE Listings(_)
Listings(S) ==
    IF S = {} THEN { <<>> }
    ELSE UNION { { <<x>> \o rest : rest \in Listings(S \ {x}) } : x \in S }

\* line 77: re.findall gives one match for each reference, left to right;
\* line 80 takes its name.
RECURSIVE potential_icons(_)
potential_icons(line) ==
    IF line = <<>> THEN <<>>
    ELSE (IF Head(line).open \in Brackets THEN << Head(line).name >> ELSE <<>>)
         \o potential_icons(Tail(line))

\* x in y, for names in lower case
IsSubstring(x, y) ==
    \E i \in 0 .. (Len(y) - Len(x)) : SubSeq(y, i + 1, i + Len(x)) = x

\* lines 87-101: whether an image of this name matches the icon name
ImageMatches(pattern_type, icon_name, img_name) ==
    IF pattern_type = "exact" THEN icon_name = img_name
    ELSE IF pattern_type = "contains"
    THEN IsSubstring(icon_name, img_name) \/ IsSubstring(img_name, icon_name)
    ELSE IsSubstring(icon_name, img_name)

\* lines 85-101: the first image of available_images that matches, or none
RECURSIVE matching_image(_, _, _)
matching_image(available_images, pattern_type, icon_name) ==
    IF available_images = <<>> THEN NoName
    ELSE IF ImageMatches(pattern_type, icon_name, Head(available_images))
    THEN Head(available_images)
    ELSE matching_image(Tail(available_images), pattern_type, icon_name)

\* str.replace of the reference open+name+close by the image markdown
replace(line, open, name, md) ==
    [ k \in DOMAIN line |->
        IF line[k].open = open /\ line[k].name = name THEN md ELSE line[k] ]

\* lines 111-113 and 128-130: the three replacements, the first of them made
\* on `line`, the line as it was read.
InlineReplaced(line, icon_name, md) ==
    replace(replace(replace(line, "[", icon_name, md), "{", icon_name, md), "<", icon_name, md)

\* lines 118 and 133: new_lines.insert(len(new_lines) - 1, img_markdown)
InsertBeforeLast(new_lines, l) ==
    SubSeq(new_lines, 1, Len(new_lines) - 1) \o << l >> \o << new_lines[Len(new_lines)] >>

InjectConfigs ==
    [ pattern_type : { "exact", "contains", "regex" },
      position : { "inline", "above", "below" },
      encoding : { "base64", "file" } ]

\* The markdown file, the names of the PNG files of images_dir, whether
\* images_dir exists, and whether it lies under the directory of the markdown
\* file (relative_to of line 124 raises ValueError otherwise).
MarkdownDocs ==
    { d \in [ kind : { "markdown" }, lines : MarkdownContents, images : SUBSET IconNames,
              dir_exists : BOOLEAN, under_parent : BOOLEAN ] :
        /\ (~d.dir_exists) => (d.images = {} /\ d.under_parent)
        /\ (Len(d.lines) = 2) => (d.dir_exists /\ d.under_parent) }

InjectFrame(available_images, li, icons_found, mi, new_lines) ==
    [ of |-> "inject_images_into_markdown", available_images |-> available_images,
      li |-> li, potential_icons |-> icons_found, mi |-> mi, new_lines |-> new_lines ]

IconExtractorIdle ==
    /\ image = NoImage
    /\ FreshRun

InitInject ==
    /\ doc \in MarkdownDocs
    /\ cfg \in InjectConfigs
    /\ (cfg.encoding = "base64") => doc.under_parent
    /\ frame = NoFrame
    /\ pc = "read"
    /\ IconExtractorIdle

IconExtractorUnchanged ==
    UNCHANGED << image, dirCreated, loaded, grayDone, detected, candidates, icons, idx,
                 crop, extracted_count, run, first >>

\* lines 49-54: the file is read, or open raises
ReadMarkdown ==
    /\ pc = "read"
    /\ \/ /\ pc' = "glob"
          /\ UNCHANGED << log, ret >>
       \/ /\ log' = Append(log, <<"Error reading markdown file">>)
          /\ ret' = "False"
          /\ pc' = "done"
    /\ UNCHANGED << doc, cfg, frame, disk, faults >>
    /\ IconExtractorUnchanged

\* lines 57-70
ListImages ==
    /\ pc = "glob"
    /\ IF ~doc.dir_exists
       THEN /\ log' = Append(log, <<"Images directory not found">>)
            /\ ret' = "False"
            /\ pc' = "done"
            /\ UNCHANGED frame
       ELSE /\ \E listing \in Listings(doc.images) :
                  frame' = InjectFrame(listing, 0, <<>>, 0, <<>>)
            /\ log' = Append(log, <<"Found images", Cardinality(doc.images)>>)
            /\ pc' = "lines"
            /\ UNCHANGED ret
    /\ UNCHANGED << doc, cfg, disk, faults >>
    /\ IconExtractorUnchanged

\* lines 72-77: the next line is appended to new_lines and searched
NextLine ==
    /\ pc = "lines"
    /\ frame.mi = Len(frame.potential_icons)
    /\ frame.li < Len(doc.lines)
    /\ LET line == doc.lines[frame.li + 1]
       IN  frame' = InjectFrame(frame.available_images, frame.li + 1,
                                potential_icons(line), 0, Append(frame.new_lines, line))
    /\ UNCHANGED << doc, cfg, pc, disk, log, faults, ret >>
    /\ IconExtractorUnchanged

\* lines 108-120 and 127-135: the change one matching reference makes to
\* new_lines
Injected(new_lines, line, icon_name, md) ==
    IF cfg.position = "inline"
    THEN [ new_lines EXCEPT ![Len(new_lines)] = InlineReplaced(line, icon_name, md) ]
    ELSE IF cfg.position = "above"
    THEN InsertBeforeLast(new_lines, << md >>)
    ELSE Append(new_lines, << md >>)

\* lines 79-137, one iteration of the loop over the matches of a line.
\* encode_image_to_base64 returns the data, or None when it cannot read the
\* image; relative_to raises when the image is not under the markdown file's
\* directory, and nothing catches it.
InjectMatch ==
    /\ pc = "lines"
    /\ frame.mi < Len(frame.potential_icons)
    /\ LET line == doc.lines[frame.li]
           icon_name == frame.potential_icons[frame.mi + 1]
           found == matching_image(frame.available_images, cfg.pattern_type, icon_name)
           md == img_markdown(icon_name, found)
           skipped == [ frame EXCEPT !.mi = frame.mi + 1 ]
           done == [ frame EXCEPT !.mi = frame.mi + 1,
                                  !.new_lines = Injected(frame.new_lines, line, icon_name, md) ]
           printed == Append(log, <<"Injected image", found, icon_name>>)
       IN  IF found = NoName
           THEN /\ frame' = skipped
                /\ UNCHANGED << pc, log, faults >>
           ELSE IF cfg.encoding = "base64"
           THEN \/ /\ frame' = done
                   /\ log' = printed
                   /\ UNCHANGED << pc, faults >>
                \/ /\ faults < MaxFaults
                   /\ faults' = faults + 1
                   /\ frame' = skipped
                   /\ log' = printed
                   /\ UNCHANGED pc
           ELSE IF doc.under_parent
           THEN /\ frame' = done
                /\ log' = printed
                /\ UNCHANGED << pc, faults >>
           ELSE /\ pc' = "raised"
                /\ UNCHANGED << frame, log, faults >>
    /\ UNCHANGED << doc, cfg, disk, ret >>
    /\ IconExtractorUnchanged

OutputPath == "output.md"

\* lines 140-148: the lines are written, or open raises
WriteOutput ==
    /\ pc = "lines"
    /\ frame.mi = Len(frame.potential_icons)
    /\ frame.li = Len(doc.lines)
    /\ \/ /\ disk' = { [name |-> OutputPath, lines |-> frame.new_lines] }
          /\ log' = Append(log, <<"Updated markdown saved to", OutputPath>>)
          /\ ret' = "True"
       \/ /\ log' = Append(log, <<"Error writing output file">>)
          /\ ret' = "False"
          /\ UNCHANGED disk
    /\ pc' = "done"
    /\ UNCHANGED << doc, cfg, frame, faults >>
    /\ IconExtractorUnchanged

NextInject ==
    \/ ReadMarkdown
    \/ ListImages
    \/ NextLine
    \/ InjectMatch
    \/ WriteOutput

SpecInject == InitInject /\ [][NextInject]_vars

(***************************************************************************)
(* extract_images_from_pdf (src/html/pdf_image_extractor.py, lines 15-90)  *)
(* with method 'all'.  extract_from_pdf (src/image_extractor.py, lines     *)
(* 14-69) has the same statements.  The page numbers of page_range are     *)
(* taken to be non-negative.                                               *)
(***************************************************************************)
MaxPages == 3        \* the document has 1..MaxPages pages

\* page_range: None, or (start_page, end_page), which may lie past the end
PageRanges == { <<>> } \cup ((0 .. MaxPages + 1) \X (0 .. MaxPages + 1))

PdfDocs == [ kind : { "pdf" }, pages : 1 .. MaxPages ]

PdfConfigs == [ method : { "all" }, page_range : PageRanges ]

\* f"page_{page_num:03d}.png"
page_filename(page_num) == <<"page_">> \o ZeroPad(Decimal(page_num), 3) \o <<".png">>

PdfFrame(start_page, end_page, page_num) ==
    [ of |-> "extract_images_from_pdf", start_page |-> start_page, end_page |-> end_page,
      page_num |-> page_num ]

InitPdf ==
    /\ doc \in PdfDocs
    /\ cfg \in PdfConfigs
    /\ frame = NoFrame
    /\ pc = "mkdir_pdf"
    /\ IconExtractorIdle

\* line 28: the directory is created, or mkdir raises outside the try block
MakePdfOutputDir ==
    /\ pc = "mkdir_pdf"
    /\ pc' \in { "open_pdf", "raised" }
    /\ UNCHANGED << doc, cfg, frame, disk, log, faults, ret >>
    /\ IconExtractorUnchanged

\* lines 86-88
ExceptPdf ==
    /\ log' = Append(log, <<"Error extracting images">>)
    /\ ret' = "False"
    /\ pc' = "done"

\* lines 32 and 63-66: the document is opened and the bounds of the loop are
\* taken, or fitz.open raises
OpenPdf ==
    /\ pc = "open_pdf"
    /\ \/ /\ cfg.method = "all"
          /\ LET start_page == IF cfg.page_range # <<>> THEN cfg.page_range[1] ELSE 0
                 end_page == IF cfg.page_range # <<>> THEN cfg.page_range[2] ELSE doc.pages
             IN  frame' = PdfFrame(start_page, end_page, start_page)
          /\ pc' = "pages"
          /\ UNCHANGED << log, ret >>
       \/ /\ ExceptPdf
          /\ UNCHANGED frame
    /\ UNCHANGED << doc, cfg, disk, faults >>
    /\ IconExtractorUnchanged

\* line 78: pix.save puts the file in the directory, replacing one of the same
\* name.
SavePage(files, name, page_num) ==
    { f \in files : f.name # name } \cup { [name |-> name, page |-> page_num] }

\* line 68: range(start_page, min(end_page, len(pdf_document)))
InPageLoop == frame.page_num < Min(frame.end_page, doc.pages)

\* lines 68-80, one iteration: the page is rendered and saved, or
\* get_pixmap or pix.save raises
ExtractPage ==
    /\ pc = "pages"
    /\ InPageLoop
    /\ \/ /\ disk' = SavePage(disk, page_filename(frame.page_num), frame.page_num)
          /\ log' = Append(log, <<"Extracted", page_filename(frame.page_num)>>)
          /\ frame' = [ frame EXCEPT !.page_num = frame.page_num + 1 ]
          /\ UNCHANGED << pc, ret, faults >>
       \/ /\ faults < MaxFaults
          /\ faults' = faults + 1
          /\ ExceptPdf
          /\ UNCHANGED << disk, frame >>
    /\ UNCHANGED << doc, cfg >>
    /\ IconExtractorUnchanged

\* lines 82-90
PrintPdfSummary ==
    /\ pc = "pages"
    /\ ~InPageLoop
    /\ log' = Append(log, <<"Extracted pages as images", frame.end_page - frame.start_page>>)
    /\ ret' = "True"
    /\ pc' = "done"
    /\ UNCHANGED << doc, cfg, frame, disk, faults >>
    /\ IconExtractorUnchanged

NextPdf ==
    \/ MakePdfOutputDir
    \/ OpenPdf
    \/ ExtractPage
    \/ PrintPdfSummary

SpecPdf == InitPdf /\ [][NextPdf]_vars

(***************************************************************************)
(* Properties.                                                             *)
(***************************************************************************)
Cropped == crop # NoCrop

\* The crop rectangle lies in the raster, is not empty, and is at least as
\* large as the region and at most 2*padding larger.
CropWithinRaster ==
    LET x1 == crop.rect[1]
        y1 == crop.rect[2]
        x2 == crop.rect[3]
        y2 == crop.rect[4]
        w == crop.region[3]
        h == crop.region[4]
    IN  /\ 0 <= x1 /\ x1 < x2 /\ x2 <= image.W
        /\ 0 <= y1 /\ y1 < y2 /\ y2 <= image.H
        /\ w <= x2 - x1 /\ x2 - x1 <= w + 2 * cfg.padding
        /\ h <= y2 - y1 /\ y2 - y1 <= h + 2 * cfg.padding

\* C1, as stated: for every region the contour or grid strategy returns and
\* every padding >= 0, the crop rectangle satisfies 0 <= x1 < x2 <= W,
\* 0 <= y1 < y2 <= H, w <= x2-x1 <= w+2*padding and h <= y2-y1 <= h+2*padding.
C1_CropWithinRaster ==
    (Cropped /\ cfg.method \in { "contour", "grid" }) => CropWithinRaster

\* C1, amended: the same, for every region returned under min_size >= 1.
\* (With min_size <= 0 the grid strategy returns cells of width and height 0
\* on a raster narrower or lower than 4 pixels.)
C1_CropWithinRasterPositiveMinSize ==
    (Cropped /\ cfg.method \in { "contour", "grid" } /\ cfg.min_size >= 1)
        => CropWithinRaster

\* A region is cropped under min_size >= 1 and the clamp cuts its padding.
C1_Witness ==
    /\ Cropped
    /\ cfg.min_size >= 1
    /\ cfg.padding >= 1
    /\ crop.rect[3] < crop.region[1] + crop.region[3] + cfg.padding
    /\ crop.rect[1] = 0

\* The filter as claim C2 states it: both sizes within the bounds, a
\* rectangle of positive area, and area / (w*h) strictly above the threshold.
ClaimedAccept(c) ==
    /\ cfg.min_size <= c.w /\ c.w <= cfg.max_size
    /\ cfg.min_size <= c.h /\ c.h <= cfg.max_size
    /\ c.w * c.h # 0
    /\ c.area2 * cfg.threshold[2] > cfg.threshold[1] * (2 * c.w * c.h)

\* C2: detect_by_contours returns, in order, exactly the rectangles of the
\* contours with min_size <= w,h <= max_size and area/(w*h) > threshold; a
\* rectangle with w*h = 0 is never returned, and no division by zero occurs.
C2_FilterAcceptsIff ==
    /\ pc # "raised"
    /\ pc = "returned_filter" =>
          /\ icons = [ k \in 1 .. Len(SelectSeq(candidates, ClaimedAccept)) |->
                        << SelectSeq(candidates, ClaimedAccept)[k].x,
                           SelectSeq(candidates, ClaimedAccept)[k].y,
                           SelectSeq(candidates, ClaimedAccept)[k].w,
                           SelectSeq(candidates, ClaimedAccept)[k].h >> ]
          /\ \A k \in 1 .. Len(icons) : icons[k][3] * icons[k][4] > 0

\* One contour is accepted and one of a size in range and of positive
\* rectangle area is rejected by its fill alone.
C2_Witness ==
    /\ pc = "returned_filter"
    /\ Len(candidates) = 2
    /\ Len(icons) = 1
    /\ \E k \in 1 .. 2 :
          /\ ~ClaimedAccept(candidates[k])
          /\ candidates[k].w * candidates[k].h > 0
          /\ cfg.min_size <= candidates[k].w /\ candidates[k].w <= cfg.max_size
          /\ cfg.min_size <= candidates[k].h /\ candidates[k].h <= cfg.max_size

\* Whether grid cells a and b, as rectangles of pixels, share a pixel.
CellsOverlap(a, b) ==
    /\ a[1] < b[1] + b[3] /\ b[1] < a[1] + a[3]
    /\ a[2] < b[2] + b[4] /\ b[2] < a[2] + a[4]

PixelInCell(p, c) ==
    /\ c[1] <= p[1] /\ p[1] < c[1] + c[3]
    /\ c[2] <= p[2] /\ p[2] < c[2] + c[4]

\* C3, as stated: on every W x H raster the grid strategy examines exactly
\* 16 cells, no two of which overlap, and every pixel of the raster lies in
\* one of them.
C3_GridTilesRaster ==
    pc = "returned_grid" =>
        /\ Len(candidates) = 16
        /\ \A j, k \in 1 .. Len(candidates) :
              j # k => ~CellsOverlap(candidates[j], candidates[k])
        /\ \A p \in Pixels(image) :
              \E k \in 1 .. Len(candidates) : PixelInCell(p, candidates[k])

\* The name claim C4 gives the file of index i: icon_, the index in decimal
\* with at least three digits, .png.
ClaimedName(i) ==
    IF i < 1000
    THEN << "icon_", i \div 100, (i \div 10) % 10, i % 10, ".png" >>
    ELSE << "icon_" >> \o Decimal(i) \o << ".png" >>

FileNames == { f.name : f \in disk }

\* C4: a run that returns True with no failed write leaves exactly the files
\* icon_000.png .. icon_{K-1}.png for the K regions detected, the k-th region
\* in the k-th file, has logged them in that order, and reports the count K.
C4_SequentialNames ==
    (pc = "done" /\ ret = "True" /\ faults = 0) =>
        /\ FileNames = { ClaimedName(i) : i \in 0 .. Len(icons) - 1 }
        /\ Cardinality(disk) = Len(icons)
        /\ Len(log) = Len(icons) + 1
        /\ \A k \in 1 .. Len(icons) :
              /\ log[k] = << "Extracted", ClaimedName(k - 1), icons[k] >>
              /\ \E f \in disk :
                    /\ f.name = ClaimedName(k - 1)
                    /\ f.rect[1] <= icons[k][1] /\ icons[k][1] + icons[k][3] <= f.rect[3]
                    /\ f.rect[2] <= icons[k][2] /\ icons[k][2] + icons[k][4] <= f.rect[4]
        /\ log[Len(log)] = << "Extracted icons", Len(icons) >>
        /\ extracted_count = Len(icons)

\* A run with sixteen regions, so with indices of two digits, has returned.
C4_Witness ==
    /\ pc = "done"
    /\ ret = "True"
    /\ faults = 0
    /\ Len(icons) = 16
    /\ << "icon_", 0, 1, 5, ".png" >> \in FileNames

UnknownMethod == cfg.method \notin { "contour", "grid", "template" }

\* C5, as stated: with an unknown method no processing step takes place (no
\* directory creation, no image load, no grayscale conversion, no detection,
\* no write) and the run reports failure.
C5_UnknownMethodNoProcessing ==
    UnknownMethod =>
        /\ ~dirCreated /\ ~loaded /\ ~grayDone /\ ~detected
        /\ disk = {}
        /\ pc = "done" => ret = "False"

\* C5, amended: with an unknown method no detection strategy runs and no
\* file is written, and a run that returns reports failure; the output
\* directory has then been created and the image loaded, and a decodable
\* image has been converted to grayscale before the method is rejected.
C5_UnknownMethodNoDetection ==
    UnknownMethod =>
        /\ ~detected /\ icons = <<>> /\ disk = {} /\ ~Cropped
        /\ pc \notin { "export" }
        /\ pc = "done" =>
              /\ ret = "False"
              /\ dirCreated /\ loaded
              /\ image # NoImage =>
                    /\ grayDone
                    /\ log = << << "Unknown method", cfg.method >> >>

\* A run with an unknown method and a decodable image has returned.
C5_Witness ==
    /\ UnknownMethod
    /\ image # NoImage
    /\ pc = "done"
    /\ grayDone

\* The number of "Extracted" lines logged: the iterations of the export loop
\* that ran to their end.
Iterations == Cardinality({ k \in 1 .. Len(log) : log[k][1] = "Extracted" })

\* C6, as stated: once the write of region k has failed, no file of a later
\* region is written, the run returns False and the summary is not printed;
\* the files written before stay.
C6_WriteFailureAborts ==
    /\ faults > 0 =>
          /\ pc = "done"
          /\ ret = "False"
          /\ \A k \in 1 .. Len(log) : log[k][1] # "Extracted icons"
    /\ \A j \in 0 .. Iterations - 1 :
          ClaimedName(j) \in FileNames => \A i \in 0 .. j : ClaimedName(i) \in FileNames

\* C7: with an image that does not decode no detection runs, no file is
\* written, the one line printed names the path, and the run returns False,
\* whatever the method.
C7_UndecodableAborts ==
    image = NoImage =>
        /\ ~grayDone /\ ~detected /\ icons = <<>> /\ disk = {} /\ ~Cropped
        /\ pc \in { "mkdir", "load", "raised", "done" }
        /\ pc = "done" =>
              /\ ret = "False"
              /\ log = << << "Error: Could not load image", cfg.image_path >> >>

\* A run on an undecodable image has returned, with a method that is known.
C7_Witness ==
    /\ image = NoImage
    /\ pc = "done"
    /\ cfg.method = "contour"
    /\ cfg.image_path = "notes.txt"

\* The sizes of {2,...,6} that divide both the width and the height.
CommonSizes == { g \in 2 .. 6 : image.W % g = 0 /\ image.H % g = 0 }

\* C8, as stated: auto_detect_grid_size returns (g, g) for the largest g of
\* {2,...,6} dividing width and height, and (4, 4) when there is none or the
\* image cannot be loaded.
C8_LargestCommonSize ==
    pc = "returned_auto" =>
        ret = IF image = NoImage \/ CommonSizes = {} THEN <<4, 4>>
              ELSE << SetMax(CommonSizes), SetMax(CommonSizes) >>

\* C8, amended: it returns (g, g) for the smallest such g.
C8_SmallestCommonSize ==
    pc = "returned_auto" =>
        ret = IF image = NoImage \/ CommonSizes = {} THEN <<4, 4>>
              ELSE << SetMin(CommonSizes), SetMin(CommonSizes) >>

\* The function has returned for a raster whose sizes 2, 3 and 6 all divide.
C8_Witness ==
    /\ pc = "returned_auto"
    /\ image # NoImage
    /\ { 2, 3, 6 } \subseteq CommonSizes
    /\ ret = <<2, 2>>

\* The cell of (row, col) as claim C9 gives it.
ClaimedCell(row, col) ==
    LET cellSize == Min(image.W, image.H) \div 4
    IN  << col * cellSize, row * cellSize,
           Min(cellSize, image.W - col * cellSize),
           Min(cellSize, image.H - row * cellSize) >>

ClaimedGridAccept(cell) == cell[3] >= cfg.min_size /\ cell[4] >= cfg.min_size

\* C9: cell (row, col) is (col*cellSize, row*cellSize, min(cellSize, width-x),
\* min(cellSize, height-y)); the cells returned are, in row order, those with
\* both sizes >= min_size, whatever max_size is; a 400 x 400 raster with
\* min_size <= 100 gives 16 cells of 100 x 100.
C9_GridCells ==
    pc = "returned_grid" =>
        /\ candidates = [ k \in 1 .. 16 |-> ClaimedCell((k - 1) \div 4, (k - 1) % 4) ]
        /\ icons = SelectSeq(candidates, ClaimedGridAccept)
        /\ (image.W = 400 /\ image.H = 400 /\ cfg.min_size <= 100) =>
              /\ Len(icons) = 16
              /\ \A k \in 1 .. 16 : icons[k][3] = 100 /\ icons[k][4] = 100

\* The 400 x 400 raster has given its 16 cells, each larger than max_size.
C9_Witness ==
    /\ pc = "returned_grid"
    /\ image.W = 400 /\ image.H = 400
    /\ cfg.min_size = 100
    /\ cfg.max_size < 100
    /\ Len(icons) = 16

\* The dark square has light pixels on all four sides.
SquareInside ==
    /\ 0 < image.sx /\ image.sx + image.s < image.W
    /\ 0 < image.sy /\ image.sy + image.s < image.H

\* C10, as stated: on a raster with one dark s x s square on a light
\* background the contour strategy returns the bounding box of the square and
\* nothing else when min_size <= s <= max_size, and nothing when s < min_size.
C10_DarkSquareFound ==
    ( /\ cfg.method = "contour"
      /\ image # NoImage
      /\ detected
      /\ image.ink = Black /\ image.paper = White
      /\ SquareInside ) =>
        /\ (cfg.min_size <= image.s /\ image.s <= cfg.max_size)
              => icons = << << image.sx, image.sy, image.s, image.s >> >>
        /\ image.s < cfg.min_size => icons = <<>>

C12_TemplateSucceedsEmpty ==
    (cfg.method = "template" /\ image # NoImage) =>
        /\ icons = <<>>
        /\ disk = {}
        /\ extracted_count = 0
        /\ (pc = "done" => /\ ret = "True"
                           /\ log = << <<"Extracted icons", 0>> >>)

\* detect_icons has returned from a call with method "template".
C12_Witness ==
    /\ cfg.method = "template"
    /\ image # NoImage
    /\ detected
    /\ pc = "done"
    /\ ret = "True"

\* The references of a line are several, distinct, and each matches an image.
SeveralMatchingReferences(line) ==
    /\ Cardinality({ line[k] : k \in { j \in DOMAIN line : line[j].open \in Brackets } }) >= 2
    /\ \A k \in DOMAIN line :
          line[k].open \in Brackets =>
              matching_image(frame.available_images, cfg.pattern_type, line[k].name) # NoName

\* C13: with position 'inline' and every image encoded, each line that holds
\* several distinct references [a], {b}, <c>, each matching an available
\* image, is written to the output with every one of those references
\* replaced by its image markdown.
C13_EveryReferenceReplaced ==
    (doc.kind = "markdown" /\ pc = "done" /\ ret = "True" /\ cfg.position = "inline"
        /\ faults = 0) =>
        \A f \in disk : \A li \in DOMAIN doc.lines :
            SeveralMatchingReferences(doc.lines[li]) =>
                \A k \in DOMAIN doc.lines[li] :
                    doc.lines[li][k].open \in Brackets => f.lines[li][k].open = "!"

\* C14: when the 'all' method has returned True, the count printed in the
\* summary line is the number of page files the call wrote.
C14_SummaryCountsFiles ==
    (doc.kind = "pdf" /\ pc = "done" /\ ret = "True") =>
        log[Len(log)] = <<"Extracted pages as images", Cardinality(disk)>>

====
